---- MODULE Spec2Model ----
(***************************************************************************)
(* State-machine model of src/graph_tools.py: class graph (adjacency with  *)
(* edge labels, Add_und_edge, isEdge, Size, Degeneracy) and class DAG.     *)
(*                                                                         *)
(* One caller drives one graph object: it calls Add_und_edge and           *)
(* Degeneracy in any order, until a call raises.  Degeneracy is split at   *)
(* its loop boundaries (set-up, pop of the source, loop over the source's  *)
(* neighbours, return).                                                    *)
(* Python's set.pop() returns an arbitrary element: a choice.  The order   *)
(* in which a dict is iterated is abstracted to a choice as well.          *)
(***************************************************************************)
EXTENDS Integers, Sequences, FiniteSets, TLC

MaxNodes == 4          \* vertex identifiers are 1..MaxNodes
MaxEdges == 4          \* the caller inserts at most this many distinct edges

Nodes  == 1..MaxNodes
Values == {"m1", "m2"} \* edge labels (Read_edges passes the movie name)

VARIABLES
  vertices, adj_list, degrees,          \* the caller's graph object (self)
  pc, error,                            \* position of the caller / exception raised
  G_vertices, G_adj_list, G_degrees,    \* G, the deep copy made by Degeneracy
  n,                                    \* local n of Degeneracy
  core_vertices, core_adj_list, core_degrees,   \* core_G, the DAG instance
  DAG_top_order,                        \* the CLASS attribute DAG.top_order
  deg_list, min_deg, i, source,         \* locals of Degeneracy
  last_call,                            \* history: what the last call was
  pre_graph,                            \* history: self when Degeneracy was called
  D1_returned, D1_order_at_return,      \* history: first DAG returned, its order then
  max_min_deg                           \* history: largest min_deg at a pop

graph_vars == <<vertices, adj_list, degrees>>
local_vars == <<G_vertices, G_adj_list, G_degrees, n, core_vertices, core_adj_list,
                core_degrees, deg_list, min_deg, i, source>>
hist_vars  == <<last_call, pre_graph, D1_returned, D1_order_at_return, max_min_deg>>
vars == <<graph_vars, pc, error, local_vars, DAG_top_order, hist_vars>>

----------------------------------------------------------------------------
(* Python values *)

EmptyDict == [x \in {} |-> 0]

\* d[k] = v on a dict
DictSet(d, k, v) == [x \in (DOMAIN d) \cup {k} |-> IF x = k THEN v ELSE d[x]]

Min(S) == CHOOSE x \in S : \A y \in S : x <= y
Max(S) == CHOOSE x \in S : \A y \in S : x >= y

\* Python numbers carry their type: int is exact, float is an IEEE double.
PyInt(v) == [type |-> "int", val |-> v]

\* a / b on two ints: true division, always a float.  The quotient is the
\* double nearest to a/b; every a of this model is even and far below 2^53,
\* so the double holds a/b exactly.
PyTrueDiv(a, b) == [type |-> "float", val |-> a \div b]

\* x + y: a float as soon as one operand is a float
PyAdd(x, y) ==
  [type |-> IF x.type = "float" \/ y.type = "float" THEN "float" ELSE "int",
   val  |-> x.val + y.val]

----------------------------------------------------------------------------
(* class graph *)

TheGraph == [vertices |-> vertices, adj_list |-> adj_list, degrees |-> degrees]

EmptyGraph == [vertices |-> {}, adj_list |-> EmptyDict, degrees |-> EmptyDict]

\* isEdge(node1, node2): 1 or 0; -1 stands for the KeyError that
\* self.adj_list[node] raises when adj_list lacks a vertex's key
isEdge(node1, node2) ==
  IF node1 \in vertices /\ node1 \notin DOMAIN adj_list THEN -1
  ELSE IF node1 \in vertices /\ node2 \in DOMAIN adj_list[node1] THEN 1
  ELSE IF node2 \in vertices /\ node2 \notin DOMAIN adj_list THEN -1
  ELSE IF node2 \in vertices /\ node1 \in DOMAIN adj_list[node2] THEN 1
  ELSE 0

\* Mutant: an existing neighbour's label is overwritten.
AddEndpoint_overwrite(g, a, b, value) ==
  IF a \in g.vertices
  THEN IF b \notin DOMAIN g.adj_list[a]
       THEN [g EXCEPT !.adj_list[a] = DictSet(@, b, value),
                      !.degrees[a] = @ + 1]
       ELSE [g EXCEPT !.adj_list[a] = DictSet(@, b, value)]
  ELSE [vertices |-> g.vertices \cup {a},
        adj_list |-> DictSet(g.adj_list, a, DictSet(EmptyDict, b, value)),
        degrees  |-> DictSet(g.degrees, a, 1)]

\* Mutant: the degree of an existing vertex is not incremented.
AddEndpoint_nodeg(g, a, b, value) ==
  IF a \in g.vertices
  THEN IF b \notin DOMAIN g.adj_list[a]
       THEN [g EXCEPT !.adj_list[a] = DictSet(@, b, value)]
       ELSE g
  ELSE [vertices |-> g.vertices \cup {a},
        adj_list |-> DictSet(g.adj_list, a, DictSet(EmptyDict, b, value)),
        degrees  |-> DictSet(g.degrees, a, 1)]

\* Mutant: an existing vertex does not get the new neighbour.
AddEndpoint_noinsert(g, a, b, value) ==
  IF a \in g.vertices
  THEN g
  ELSE [vertices |-> g.vertices \cup {a},
        adj_list |-> DictSet(g.adj_list, a, DictSet(EmptyDict, b, value)),
        degrees  |-> DictSet(g.degrees, a, 1)]

\* One half of Add_und_edge: endpoint a gets neighbour b with the label.
AddEndpoint(g, a, b, value) ==
  IF a \in g.vertices
  THEN IF b \notin DOMAIN g.adj_list[a]
       THEN [g EXCEPT !.adj_list[a] = DictSet(@, b, value),
                      !.degrees[a] = @ + 1]
       ELSE g
  ELSE [vertices |-> g.vertices \cup {a},
        adj_list |-> DictSet(g.adj_list, a, DictSet(EmptyDict, b, value)),
        degrees  |-> DictSet(g.degrees, a, 1)]

\* The graph after Add_und_edge(node1, node2, value)
AddUndEdgeResult(g, node1, node2, value) ==
  IF node1 = node2 THEN g
  ELSE AddEndpoint(AddEndpoint(g, node1, node2, value), node2, node1, value)

\* The distinct undirected edges stored in g
EdgesOf(g) ==
  {e \in Nodes \X Nodes :
     e[1] < e[2] /\ e[1] \in DOMAIN g.adj_list /\ e[2] \in DOMAIN g.adj_list[e[1]]}

RECURSIVE SizeLoop(_, _, _, _)
\* the loop of Size over self.vertices, m and wedge accumulated
SizeLoop(todo, degs, m, wedge) ==
  IF todo = {} THEN <<m, wedge>>
  ELSE LET node == CHOOSE x \in todo : TRUE
           deg  == degs[node]
       IN SizeLoop(todo \ {node}, degs,
                   PyAdd(m, PyInt(deg)),
                   PyAdd(wedge, PyTrueDiv(deg * (deg - 1), 2)))

\* Size(): [n, m, wedge]
Size ==
  LET r == SizeLoop(vertices, degrees, PyInt(0), PyInt(0))
  IN <<PyInt(Cardinality(vertices)), r[1], r[2]>>

----------------------------------------------------------------------------
(* The caller *)

\* The caller may make its next call.  Nothing in the repository catches an
\* exception: one that leaves Degeneracy ends the run (pc = "raised" is final).
NoCall == {"idle", "done"}
CallEnded == pc \in {"done", "raised"}

\* The locals of a Degeneracy call that is not running
LocalsGone ==
  /\ G_vertices' = {} /\ G_adj_list' = EmptyDict /\ G_degrees' = EmptyDict
  /\ n' = 0
  /\ core_vertices' = {} /\ core_adj_list' = EmptyDict /\ core_degrees' = EmptyDict
  /\ deg_list' = EmptyDict /\ min_deg' = 0 /\ i' = 0 /\ source' = 0

Init ==
  /\ vertices = {} /\ adj_list = EmptyDict /\ degrees = EmptyDict
  /\ pc = "idle" /\ error = "none"
  /\ G_vertices = {} /\ G_adj_list = EmptyDict /\ G_degrees = EmptyDict
  /\ n = 0
  /\ core_vertices = {} /\ core_adj_list = EmptyDict /\ core_degrees = EmptyDict
  /\ DAG_top_order = << >>
  /\ deg_list = EmptyDict /\ min_deg = 0 /\ i = 0 /\ source = 0
  /\ last_call = "none"
  /\ pre_graph = EmptyGraph
  /\ D1_returned = FALSE /\ D1_order_at_return = << >>
  /\ max_min_deg = 0

\* The labels stored for the pair {a, b}, on either endpoint
StoredLabels(a, b) ==
  {adj_list[e[1]][e[2]] :
     e \in {f \in {<<a, b>>, <<b, a>>} :
              f[1] \in DOMAIN adj_list /\ f[2] \in DOMAIN adj_list[f[1]]}}

\* What kind of call Add_und_edge(node1, node2, value) is on the current graph
CallKind(node1, node2, value) ==
  IF node1 = node2 THEN "self_loop"
  ELSE IF isEdge(node1, node2) = 1
       THEN IF StoredLabels(node1, node2) = {value} THEN "duplicate"
                                                     ELSE "duplicate_other_value"
       ELSE "new_edge"

Add_und_edge(node1, node2, value) ==
  /\ pc \in NoCall
  /\ LET h == AddUndEdgeResult(TheGraph, node1, node2, value)
     IN /\ Cardinality(EdgesOf(h)) <= MaxEdges
        /\ vertices' = h.vertices
        /\ adj_list' = h.adj_list
        /\ degrees'  = h.degrees
  /\ pc' = "idle" /\ error' = "none"
  /\ LocalsGone
  /\ last_call' = CallKind(node1, node2, value)
  /\ pre_graph' = EmptyGraph
  /\ max_min_deg' = 0
  /\ UNCHANGED <<DAG_top_order, D1_returned, D1_order_at_return>>

----------------------------------------------------------------------------
(* graph.Degeneracy and class DAG *)

\* deg_list after the loop of lines 199-203: entry d holds the vertices of degree d
InitDegList(Gv, Gd, k) == [d \in 0..(k - 1) |-> {v \in Gv : Gd[v] = d}]

\* Mutant: min_deg is never lowered from its initial value n.
InitMinDeg_stale(Gv, Gd, k) == k

\* min_deg after the loop of lines 196-203: n, lowered to every smaller degree seen
InitMinDeg(Gv, Gd, k) ==
  LET below == {Gd[v] : v \in Gv} \cap (0..(k - 1))
  IN IF below = {} THEN k ELSE Min(below)

RECURSIVE ScanMinDeg(_, _)
\* The while loop of lines 212-213: the first index from m on with a non-empty
\* bucket; -1 when deg_list[m] is indexed past its end (IndexError)
ScanMinDeg(dl, m) ==
  IF m \notin DOMAIN dl THEN -1
  ELSE IF dl[m] = {} THEN ScanMinDeg(dl, m + 1)
  ELSE m

\* instance.top_order of a DAG instance.  DAG.__init__ assigns DAG.top_order,
\* the class attribute, and nothing ever assigns self.top_order: the lookup on
\* any instance finds the one list the class holds.
TopOrderOfInstance == DAG_top_order

\* Lines 186-203 without the caller's graph: G, n, core_G = DAG(), deg_list, min_deg
\* (the local list top_order of line 188 is never read and is left out)
SetupLocals ==
  /\ pc \in NoCall
  /\ G_vertices' = vertices /\ G_adj_list' = adj_list /\ G_degrees' = degrees
  /\ n' = Cardinality(vertices)
  /\ DAG_top_order' = << >>
  /\ core_vertices' = vertices
  /\ core_adj_list' = [v \in vertices |-> {}]
  /\ core_degrees' = [v \in vertices |-> 0]
  /\ i' = 0 /\ source' = 0
  /\ IF \E v \in vertices : degrees[v] > Cardinality(vertices) - 1
     THEN \* deg_list[deg] past the end of the list
          /\ deg_list' = [d \in 0..(Cardinality(vertices) - 1) |-> {}]
          /\ min_deg' = Cardinality(vertices)
          /\ pc' = "raised" /\ error' = "IndexError"
     ELSE /\ deg_list' = InitDegList(vertices, degrees, Cardinality(vertices))
          /\ min_deg' = InitMinDeg(vertices, degrees, Cardinality(vertices))
          /\ pc' = "loop" /\ error' = "none"
  /\ last_call' = "Degeneracy"
  /\ pre_graph' = TheGraph
  /\ max_min_deg' = 0
  /\ UNCHANGED <<D1_returned, D1_order_at_return>>

\* Mutant: the loop of lines 191-193 initialises self.degrees, not core_G.degrees.
Degeneracy_setup_self ==
  /\ SetupLocals
  /\ degrees' = [v \in vertices |-> 0]
  /\ UNCHANGED <<vertices, adj_list>>

\* The call of Degeneracy up to the main loop (lines 186-203)
Degeneracy_setup ==
  /\ SetupLocals
  /\ UNCHANGED <<vertices, adj_list, degrees>>

\* Lines 207-216: one more iteration; min_deg scans up, the source is popped
\* and appended to the topological order
Degeneracy_pop ==
  /\ pc = "loop" /\ i < n
  /\ LET m == ScanMinDeg(deg_list, min_deg)
     IN IF m = -1
        THEN /\ min_deg' = n
             /\ pc' = "raised" /\ error' = "IndexError"
             /\ UNCHANGED <<deg_list, source, DAG_top_order, max_min_deg>>
        ELSE \E s \in deg_list[m] :
               /\ min_deg' = m
               /\ deg_list' = [deg_list EXCEPT ![m] = @ \ {s}]
               /\ source' = s
               /\ DAG_top_order' = Append(DAG_top_order, s)
               /\ max_min_deg' = IF m > max_min_deg THEN m ELSE max_min_deg
               /\ pc' = "nbrs" /\ error' = "none"
  /\ UNCHANGED <<graph_vars, G_vertices, G_adj_list, G_degrees, n, core_vertices,
                 core_adj_list, core_degrees, i, last_call, pre_graph,
                 D1_returned, D1_order_at_return>>

\* Lines 221-232: the loop over the neighbours of the source.  With no
\* neighbour the iteration ends.  Otherwise the first neighbour is moved one
\* bucket down (224-228) and line 232 calls G.adj_list[node].remove(source):
\* G.adj_list[node] is a dict (lines 75 and 87 create it, deepcopy keeps the
\* type) and a dict has no attribute remove, so the call raises AttributeError
\* and lines 233-236 are never reached.
Degeneracy_nbrs ==
  /\ pc = "nbrs"
  /\ IF DOMAIN G_adj_list[source] = {}
     THEN /\ i' = i + 1
          /\ pc' = "loop" /\ error' = "none"
          /\ UNCHANGED <<deg_list, min_deg>>
     ELSE \E node \in DOMAIN G_adj_list[source] :
            LET deg == G_degrees[node]
            IN IF deg \notin DOMAIN deg_list \/ node \notin deg_list[deg]
               THEN \* deg_list[deg].remove(node) fails
                    /\ pc' = "raised"
                    /\ error' = IF deg \notin DOMAIN deg_list THEN "IndexError"
                                                              ELSE "KeyError"
                    /\ UNCHANGED <<deg_list, min_deg, i>>
               ELSE /\ deg_list' = [deg_list EXCEPT ![deg] = @ \ {node},
                                                    ![deg - 1] = @ \cup {node}]
                    /\ min_deg' = IF deg - 1 < min_deg THEN deg - 1 ELSE min_deg
                    /\ pc' = "raised" /\ error' = "AttributeError"
                    /\ UNCHANGED i
  /\ UNCHANGED <<graph_vars, G_vertices, G_adj_list, G_degrees, n, core_vertices,
                 core_adj_list, core_degrees, source, DAG_top_order, hist_vars>>

\* Line 238: the main loop has run n times, core_G is returned
Degeneracy_return ==
  /\ pc = "loop" /\ ~(i < n)
  /\ pc' = "done" /\ error' = "none"
  /\ D1_returned' = TRUE
  /\ D1_order_at_return' = IF D1_returned THEN D1_order_at_return
                                          ELSE TopOrderOfInstance
  /\ UNCHANGED <<graph_vars, local_vars, DAG_top_order, last_call, pre_graph,
                 max_min_deg>>

----------------------------------------------------------------------------

Next ==
  \/ \E node1 \in Nodes, node2 \in Nodes, value \in Values :
       Add_und_edge(node1, node2, value)
  \/ Degeneracy_setup
  \/ Degeneracy_pop
  \/ Degeneracy_nbrs
  \/ Degeneracy_return

Spec == Init /\ [][Next]_vars

----------------------------------------------------------------------------
(* Properties *)

Removed == {DAG_top_order[k] : k \in 1..Len(DAG_top_order)}

\* position of v in the topological order, 0 if absent
Position(v) ==
  IF v \in Removed THEN Min({k \in 1..Len(DAG_top_order) : DAG_top_order[k] = v})
  ELSE 0

RECURSIVE SumOver(_, _)
SumOver(S, f) ==
  IF S = {} THEN 0
  ELSE LET x == CHOOSE y \in S : TRUE IN f[x] + SumOver(S \ {x}, f)

\* C1: whenever a Degeneracy call has ended it has returned (no error), and
\* the topological order of the result has length n and holds every vertex
\* exactly once; on the empty graph the order is empty and no edge is directed.
C1_Claim ==
  CallEnded =>
    /\ pc = "done" /\ error = "none"
    /\ Len(TopOrderOfInstance) = Cardinality(vertices)
    /\ Removed = vertices
    /\ (vertices = {} =>
          TopOrderOfInstance = << >> /\ \A v \in core_vertices : core_adj_list[v] = {})

\* C2: when a Degeneracy call has ended, every edge {u,v} of the input is
\* directed exactly once in the result, from the endpoint earlier in the
\* topological order to the later one, and the result has no other edge.
C2_Claim ==
  CallEnded =>
    /\ DOMAIN core_adj_list = vertices
    /\ \A u \in vertices, v \in vertices :
         /\ (isEdge(u, v) = 1) =>
              /\ (v \in core_adj_list[u]) # (u \in core_adj_list[v])
              /\ (v \in core_adj_list[u]) <=> (Position(u) < Position(v))
         /\ (v \in core_adj_list[u]) =>
              isEdge(u, v) = 1 /\ 0 < Position(u) /\ Position(u) < Position(v)

\* C3: once a first Degeneracy call has returned its DAG, the topological
\* order of that DAG stays what it was at the return, whatever is called later.
C3_Claim ==
  D1_returned => TopOrderOfInstance = D1_order_at_return

\* C4: during and after a Degeneracy call, however it ends, the caller's graph
\* (vertices, adjacency with labels, degrees) is what it was at the call.
C4_CallerGraphUnchanged ==
  pc \in {"loop", "nbrs", "done", "raised"} => TheGraph = pre_graph

\* a Degeneracy call on a graph with a vertex of degree 2 has ended by raising
C4_Witness ==
  /\ pc = "raised" /\ error = "AttributeError"
  /\ \E v \in vertices : degrees[v] >= 2
  /\ deg_list # InitDegList(vertices, degrees, n)

\* C5: adjacency is symmetric and both endpoints store the same label; isEdge
\* is symmetric on all pairs, vertices or not, and never raises.
C5_SymmetricAdjacency ==
  /\ \A u \in DOMAIN adj_list : \A v \in DOMAIN adj_list[u] :
       /\ v \in DOMAIN adj_list
       /\ u \in DOMAIN adj_list[v]
       /\ adj_list[u][v] = adj_list[v][u]
  /\ \A u \in Nodes, v \in Nodes :
       /\ isEdge(u, v) \in {0, 1}
       /\ isEdge(u, v) = isEdge(v, u)

\* a vertex with two neighbours under different labels, and a non-vertex
C5_Witness ==
  /\ \E u \in vertices : \E v \in DOMAIN adj_list[u], w \in DOMAIN adj_list[u] :
       adj_list[u][v] # adj_list[u][w]
  /\ vertices # Nodes

\* C6: degrees[v] is the number of entries of adj_list[v], no vertex is its
\* own neighbour, and adj_list and degrees have exactly the vertices as keys.
C6_DegreeIsNeighbourCount ==
  /\ DOMAIN adj_list = vertices
  /\ DOMAIN degrees = vertices
  /\ \A v \in vertices :
       /\ degrees[v] = Cardinality(DOMAIN adj_list[v])
       /\ v \notin DOMAIN adj_list[v]

\* a vertex of degree 3 after a self-loop was offered
C6_Witness ==
  /\ \E v \in vertices : degrees[v] = 3
  /\ last_call = "self_loop"

\* C7: a step Add_und_edge(u, v, label) with u = v, or with {u,v} already an
\* edge (last_call records which it was, judged on the graph before the call),
\* changes no vertex, no adjacency entry, no label and no degree.
C7_NoOpInsertions ==
  [][last_call' \in {"self_loop", "duplicate", "duplicate_other_value"}
       => UNCHANGED <<vertices, adj_list, degrees>>]_vars

\* an existing edge was inserted again under another label
C7_Witness ==
  /\ last_call = "duplicate_other_value"
  /\ Cardinality(EdgesOf(TheGraph)) >= 2

\* The number the returned DAG carries about the peeling: its largest
\* out-degree, the residual degree a source had when it was removed.
ExposedDegeneracy ==
  IF core_vertices = {} THEN 0 ELSE Max({core_degrees[v] : v \in core_vertices})

IsPath4 == EdgesOf(TheGraph) = {<<1, 2>>, <<2, 3>>, <<3, 4>>}

\* C8: when a Degeneracy call has ended, it has returned and its result gives
\* the degeneracy number, the largest min_deg at a pop; 1 on the path 1-2-3-4.
C8_Claim ==
  CallEnded =>
    /\ pc = "done"
    /\ ExposedDegeneracy = max_min_deg
    /\ (IsPath4 => ExposedDegeneracy = 1)

\* C9: Size() is [n, m, wedges] with n the number of vertices, m twice the
\* number of distinct edges and wedges the integer sum of deg*(deg-1)/2.
C9_Claim ==
  Size = <<PyInt(Cardinality(vertices)),
           PyInt(2 * Cardinality(EdgesOf(TheGraph))),
           PyInt(SumOver(vertices, [v \in vertices |-> (degrees[v] * (degrees[v] - 1)) \div 2]))>>

====
